---- MODULE Spec2Model ----
(***************************************************************************)
(* A model of std::io::process (src/src/libstd/io/process.rs): the        *)
(* ProcessExit value, the spawn of a child from a ProcessConfig, the       *)
(* operations of a Process handle (signal, wait, closing an io slot) and   *)
(* its destructor, together with the child process and the parent-side     *)
(* pipe descriptors they act on.                                           *)
(***************************************************************************)
EXTENDS Integers, Sequences, FiniteSets, TLC

(* ------------------------------ bounds -------------------------------- *)

\* longest config.io the model spawns with
MaxSlots == 2
\* largest exit code a child program exits with
MaxCode == 1
\* most explicit wait() calls the caller makes on one handle
MaxWaits == 2
\* most signal() calls the caller makes on one handle
MaxSignals == 1
\* the payloads of the ProcessExit values inspected are -MaxVal..MaxVal
MaxVal == 3

(* --------------------------- program constants ------------------------ *)

PleaseExitSignal == 15
MustDieSignal == 9
\* the signal of tests::signal_reported_right ("kill -1 $$")
SelfSignal == 1

(* ------------------------------ options ------------------------------- *)

None == <<>>
Some(x) == <<x>>
IsSome(o) == o # None
Unwrap(o) == o[1]

(* ----------------------------- ProcessExit ---------------------------- *)

ExitStatus(n) == [variant |-> "ExitStatus", payload |-> n]
ExitSignal(n) == [variant |-> "ExitSignal", payload |-> n]

\* #[deriving(Eq)]: same variant and same payload
ProcessExit_eq(a, b) == a.variant = b.variant /\ a.payload = b.payload

matches_exit_status_AnyVariant(self, wanted) == self.payload = wanted

matches_exit_status(self, wanted) == ProcessExit_eq(self, ExitStatus(wanted))

success_AnyVariant(self) == self.payload = 0

success(self) == matches_exit_status(self, 0)

(* --------------------------- StdioContainer --------------------------- *)

Ignored == [kind |-> "Ignored"]
InheritFd(fd) == [kind |-> "InheritFd", fd |-> fd]
CreatePipe(readable, writable) ==
    [kind |-> "CreatePipe", readable |-> readable, writable |-> writable]

StdioContainers ==
    {Ignored, InheritFd(2), CreatePipe(TRUE, FALSE), CreatePipe(FALSE, TRUE)}

RECURSIVE SeqsUpTo(_, _)
SeqsUpTo(S, n) ==
    IF n = 0 THEN {<<>>}
    ELSE LET shorter == SeqsUpTo(S, n - 1) IN
         shorter \cup {Append(s, x) : s \in {t \in shorter : Len(t) = n - 1}, x \in S}

(* ----------------------------- ProcessConfig -------------------------- *)

\* what the program at config.program does once it runs
Programs ==
    {[kind |-> "missing", path |-> "if-this-is-a-binary-then-the-world-has-ended"],
     [kind |-> "noexec", path |-> "/etc/passwd"],
     [kind |-> "killself", path |-> "/bin/sh"],
     [kind |-> "readline", path |-> "/bin/sh"]}
    \cup {[kind |-> "exit", path |-> "/bin/sh", code |-> c] : c \in 0..MaxCode}

\* config.args: the tests run every script as /bin/sh -c <script>
ArgsOf(program) == IF program.path = "/bin/sh" THEN <<"-c", program.kind>> ELSE <<>>

\* the uid and gid of the parent, which is not root
ParentId == 1000

\* (uid, gid, cwd, detach) as the tests set them, and the failing variants
Profiles ==
    { [uid |-> None, gid |-> None, cwd |-> None, detach |-> FALSE],
      [uid |-> Some(ParentId), gid |-> Some(ParentId), cwd |-> None, detach |-> FALSE],
      [uid |-> Some(0), gid |-> Some(0), cwd |-> None, detach |-> FALSE],
      [uid |-> None, gid |-> None, cwd |-> Some("/"), detach |-> FALSE],
      [uid |-> None, gid |-> None, cwd |-> Some("/nonexistent"), detach |-> FALSE],
      [uid |-> None, gid |-> None, cwd |-> None, detach |-> TRUE] }

ProcessConfig(program, stdio, prof) ==
    [program |-> program, args |-> ArgsOf(program), env |-> None, cwd |-> prof.cwd,
     io |-> stdio, uid |-> prof.uid, gid |-> prof.gid, detach |-> prof.detach]

Configs ==
    {ProcessConfig(p, s, prof) :
        p \in Programs, s \in SeqsUpTo(StdioContainers, MaxSlots), prof \in Profiles}

(* ------------------------------- state -------------------------------- *)

VARIABLES
    pc,         \* where the caller is: start, live, waiting, dropping, dropwaiting, done, failed
    config,     \* the ProcessConfig given to Process::new
    spawnRes,   \* what io.spawn returned: "none", "Ok", "Err"
    newRes,     \* what Process::new returned: "none", "Ok", "Err"
    handle,     \* Process.handle (the RtioProcess): None or Some([exit_status])
    io,         \* Process.io: a sequence of Option<PipeStream>
    fds,        \* the parent-side pipe descriptor made for slot i: state and number of closes
    child,      \* the child process: none, running, zombie, reaped
    childTerm,  \* how the child actually terminated: None or Some(ProcessExit)
    waits,      \* counters: calls of Process::wait, its returns, OS-level waits done
    dropWaited, \* the destructor has called self.wait()
    firstRet,   \* what the first wait() to return returned
    lastRet,    \* what the latest wait() to return returned
    sig,        \* signal() calls made, and what the latest returned
    lastOp,     \* the caller operation that acted last
    pv,         \* a ProcessExit value under inspection
    pq,         \* the latest inspection of pv: [op, wanted, res]
    nextPid,    \* the process id the OS gives to the next child
    ids,        \* id() calls made, what the first returned and what the latest returned
    inflight,   \* per pipe: the bytes in flight down to the child and up to the parent
    parentWrote,\* the bytes the parent has written to the child's stdin
    parentRead, \* per io slot: the bytes the parent has read from its endpoint, and end of file
    kid,        \* the child's view: bytes read from fd 0, phase, bytes written per fd
    pio,        \* the parent's latest pipe operation: [op, slot, res]
    cvpc,       \* the CVec value: "none", "live", "failed", "unwrapped" or "dropped"
    cv,         \* the CVec: [base, len, rsrc], or None
    mem,        \* the foreign buffer: the element at offset ofs is mem[ofs + 1]
    written,    \* per offset, the latest value stored through get_mut, or None
    built,      \* the base and len the CVec was constructed with, or None
    dtorRuns,   \* how many times the release action has run
    cres        \* the latest CVec call: [op, ofs, ok, val], or None

procVars == <<pc, config, spawnRes, newRes, handle, io, fds, child, childTerm,
              waits, dropWaited, firstRet, lastRet, sig, lastOp>>
exitVars == <<pv, pq>>
idVars == <<nextPid, ids>>
pipeVars == <<inflight, parentWrote, parentRead, kid, pio>>
cvecVars == <<cvpc, cv, mem, written, built, dtorRuns, cres>>
extVars == <<idVars, pipeVars, cvecVars>>
vars == <<pc, config, spawnRes, newRes, handle, io, fds, child, childTerm,
          waits, dropWaited, firstRet, lastRet, sig, lastOp, pv, pq, extVars>>

Slots == 1..(MaxSlots + 1)

NoFd == [st |-> "none", closes |-> 0, by |-> "none"]

OpenFds == {i \in DOMAIN fds : fds[i].st = "open"}

(* ------------------------- the spawner (io.spawn) --------------------- *)

SpawnFails(cfg) ==
    \/ cfg.program.kind \in {"missing", "noexec"}
    \/ cfg.uid = Some(0)
    \/ cfg.gid = Some(0)
    \/ cfg.cwd = Some("/nonexistent")

\* the pipes io.spawn makes: one per CreatePipe slot, index-aligned with cfg.io
SpawnPipes(cfg) ==
    [i \in 1..Len(cfg.io) |->
        IF cfg.io[i].kind = "CreatePipe" THEN Some(i) ELSE None]

\* io.spawn: Ok with the pipes, or Err with every pipe it made closed again
IoSpawn(cfg, exhausted, pid) ==
    LET made == {i \in 1..Len(cfg.io) : cfg.io[i].kind = "CreatePipe"} IN
    IF SpawnFails(cfg) \/ exhausted
    THEN [ok |-> FALSE, pipes |-> <<>>, pid |-> None,
          fds |-> [i \in Slots |->
                     IF i \in made
                     THEN [st |-> "closed", closes |-> 1, by |-> "spawner"] ELSE NoFd]]
    ELSE [ok |-> TRUE, pipes |-> SpawnPipes(cfg), pid |-> Some(pid),
          fds |-> [i \in Slots |->
                     IF i \in made
                     THEN [st |-> "open", closes |-> 0, by |-> "none"] ELSE NoFd]]

(* -------------------------------- Init -------------------------------- *)

InitProc ==
    /\ pc = "start"
    /\ spawnRes = "none"
    /\ newRes = "none"
    /\ handle = None
    /\ io = <<>>
    /\ fds = [i \in Slots |-> NoFd]
    /\ child = "none"
    /\ childTerm = None
    /\ waits = [calls |-> 0, rets |-> 0, os |-> 0]
    /\ dropWaited = FALSE
    /\ firstRet = None
    /\ lastRet = None
    /\ sig = [calls |-> 0, res |-> "none"]
    /\ lastOp = "none"

Pids == {4711, 4712}

NoIds == [calls |-> 0, first |-> None, last |-> None]

InitId ==
    /\ nextPid = CHOOSE p \in Pids : \A q \in Pids : p <= q
    /\ ids = NoIds

InitPipe ==
    /\ inflight = [i \in Slots |-> [down |-> <<>>, up |-> <<>>]]
    /\ parentWrote = <<>>
    /\ parentRead = [i \in Slots |-> [data |-> <<>>, eof |-> FALSE]]
    /\ kid = [in |-> <<>>, phase |-> "read", pos |-> 0, out |-> [i \in Slots |-> <<>>]]
    /\ pio = None

InitCVec ==
    /\ cvpc = "none"
    /\ cv = None
    /\ mem = <<>>
    /\ written = <<>>
    /\ built = None
    /\ dtorRuns = 0
    /\ cres = None

InitExt == InitId /\ InitPipe /\ InitCVec

Init ==
    /\ config \in Configs
    /\ InitProc
    /\ InitExt
    /\ pv = None
    /\ pq = None

(* ----------------------------- Process::new --------------------------- *)

PipeStream_new(p) == [obj |-> p]

MapPipes_FilterMap(pipes) ==
    LET F[k \in 0..Len(pipes)] ==
          IF k = 0 THEN <<>>
          ELSE IF IsSome(pipes[k]) THEN Append(F[k - 1], Some(PipeStream_new(Unwrap(pipes[k]))))
               ELSE F[k - 1]
    IN F[Len(pipes)]

MapPipes_Reversed(pipes) ==
    [i \in 1..Len(pipes) |->
        IF IsSome(pipes[Len(pipes) + 1 - i])
        THEN Some(PipeStream_new(Unwrap(pipes[Len(pipes) + 1 - i]))) ELSE None]

\* io.move_iter().map(|p| p.map(|p| io::PipeStream::new(p))).collect()
MapPipes(pipes) ==
    [i \in 1..Len(pipes) |->
        IF IsSome(pipes[i]) THEN Some(PipeStream_new(Unwrap(pipes[i]))) ELSE None]

\* the RtioProcess io.spawn hands over: no exit status yet, and the child's pid
RtioProcess_of(r) == [exit_status |-> None, pid |-> r.pid]

ProcessOf_IgnoreErr(r) ==
    [ok |-> TRUE, handle |-> Some(RtioProcess_of(r)), io |-> MapPipes(r.pipes)]

\* io.spawn(..).map(|(p, io)| Process { handle: p, io: .. }): Err stays Err
ProcessOf(r) ==
    IF r.ok
    THEN [ok |-> TRUE, handle |-> Some(RtioProcess_of(r)), io |-> MapPipes(r.pipes)]
    ELSE [ok |-> FALSE, handle |-> None, io |-> <<>>]

Process_new ==
    /\ pc = "start"
    /\ \E exhausted \in BOOLEAN :
         LET r == IoSpawn(config, exhausted, nextPid)
             p == ProcessOf(r)
         IN /\ spawnRes' = IF r.ok THEN "Ok" ELSE "Err"
            /\ newRes' = IF p.ok THEN "Ok" ELSE "Err"
            /\ handle' = p.handle
            /\ io' = p.io
            /\ fds' = r.fds
            /\ child' = IF r.ok THEN "running" ELSE "none"
            /\ pc' = IF p.ok THEN "live" ELSE "failed"
    /\ lastOp' = "new"
    /\ UNCHANGED <<config, childTerm, waits, dropWaited, firstRet, lastRet, sig, pv, pq, extVars>>

(* --------------------- RtioProcess: wait and kill --------------------- *)

ReturnTo(caller) == IF caller = "drop" THEN "done" ELSE "live"
BlockedAt(caller) == IF caller = "drop" THEN "dropwaiting" ELSE "waiting"

Returned(st) ==
    /\ lastRet' = Some(st)
    /\ firstRet' = IF IsSome(firstRet) THEN firstRet ELSE Some(st)

\* RtioProcess::wait, the call: a cached exit status is returned at once,
\* otherwise the caller blocks until the child has terminated
RtioProcess_wait(caller) ==
    LET cached == Unwrap(handle).exit_status IN
    IF IsSome(cached)
    THEN /\ Returned(Unwrap(cached))
         /\ waits' = [waits EXCEPT !.calls = @ + 1, !.rets = @ + 1]
         /\ pc' = ReturnTo(caller)
    ELSE /\ waits' = [waits EXCEPT !.calls = @ + 1]
         /\ pc' = BlockedAt(caller)
         /\ UNCHANGED <<firstRet, lastRet>>

\* RtioProcess::wait, the wake-up: the OS-level wait reaps the terminated child,
\* the status is cached in the handle and returned
RtioProcess_wait_wake ==
    /\ pc \in {"waiting", "dropwaiting"}
    /\ child = "zombie"
    /\ child' = "reaped"
    /\ handle' = Some([Unwrap(handle) EXCEPT !.exit_status = childTerm])
    /\ Returned(Unwrap(childTerm))
    /\ waits' = [waits EXCEPT !.rets = @ + 1, !.os = @ + 1]
    /\ pc' = IF pc = "waiting" THEN "live" ELSE "done"
    /\ UNCHANGED <<config, spawnRes, newRes, io, fds, childTerm, dropWaited, sig,
                   lastOp, pv, pq, extVars>>

\* RtioProcess::kill: an error once the child is gone, otherwise the signal is
\* delivered and terminates a running child
RtioProcess_kill(signal) ==
    IF IsSome(Unwrap(handle).exit_status) \/ child = "reaped"
    THEN /\ sig' = [calls |-> sig.calls + 1, res |-> "Err"]
         /\ UNCHANGED <<child, childTerm>>
    ELSE /\ sig' = [calls |-> sig.calls + 1, res |-> "Ok"]
         /\ IF child = "running"
            THEN child' = "zombie" /\ childTerm' = Some(ExitSignal(signal))
            ELSE UNCHANGED <<child, childTerm>>

(* ------------------- Process: signal, wait, io slots ------------------ *)

Signals == {PleaseExitSignal, MustDieSignal}

Process_signal_Swallow(signal) ==
    /\ sig' = [calls |-> sig.calls + 1, res |-> "Ok"]
    /\ UNCHANGED <<child, childTerm>>

\* self.handle.kill(signal)
Process_signal(signal) == RtioProcess_kill(signal)

signal ==
    /\ pc = "live"
    /\ sig.calls < MaxSignals
    /\ \E s \in Signals : Process_signal(s)
    /\ lastOp' = "signal"
    /\ UNCHANGED <<pc, config, spawnRes, newRes, handle, io, fds, waits, dropWaited,
                   firstRet, lastRet, pv, pq, extVars>>

Process_wait_Uncached(caller) ==
    /\ waits' = [waits EXCEPT !.calls = @ + 1]
    /\ pc' = BlockedAt(caller)
    /\ UNCHANGED <<firstRet, lastRet>>

Process_wait_NoBlock(caller) ==
    /\ Returned(IF IsSome(childTerm) THEN Unwrap(childTerm) ELSE ExitStatus(0))
    /\ waits' = [waits EXCEPT !.calls = @ + 1, !.rets = @ + 1]
    /\ pc' = ReturnTo(caller)

\* self.handle.wait()
Process_wait(caller) == RtioProcess_wait(caller)

wait ==
    /\ pc = "live"
    /\ waits.calls < MaxWaits
    /\ Process_wait("user")
    /\ lastOp' = "wait"
    /\ UNCHANGED <<config, spawnRes, newRes, handle, io, fds, child, childTerm,
                   dropWaited, sig, pv, pq, extVars>>

\* dropping a PipeStream closes its descriptor; by: who dropped it
CloseFd(f, i, by) ==
    [f EXCEPT ![i] = [st |-> "closed", closes |-> @.closes + 1, by |-> by]]

\* dropping an Option<PipeStream>
DropSlot(f, slot, by) == IF IsSome(slot) THEN CloseFd(f, Unwrap(slot).obj, by) ELSE f

set_slot_none_Leak(i) ==
    /\ io' = [io EXCEPT ![i] = None]
    /\ UNCHANGED fds

\* p.io[i] = None: the old value of the slot is dropped
set_slot_none(i) ==
    /\ io' = [io EXCEPT ![i] = None]
    /\ fds' = DropSlot(fds, io[i], "caller")

close_slot ==
    /\ pc = "live"
    /\ \E i \in DOMAIN io : set_slot_none(i)
    /\ lastOp' = "close"
    /\ UNCHANGED <<pc, config, spawnRes, newRes, handle, child, childTerm, waits,
                   dropWaited, firstRet, lastRet, sig, pv, pq, extVars>>

(* --------------------------- Drop for Process ------------------------- *)

\* the owner's scope ends
drop_begin ==
    /\ pc = "live"
    /\ pc' = "dropping"
    /\ lastOp' = "drop"
    /\ UNCHANGED <<config, spawnRes, newRes, handle, io, fds, child, childTerm, waits,
                   dropWaited, firstRet, lastRet, sig, pv, pq, extVars>>

drop_pop_Leak ==
    /\ pc = "dropping"
    /\ io # <<>>
    /\ io' = SubSeq(io, 1, Len(io) - 1)
    /\ UNCHANGED <<pc, config, spawnRes, newRes, handle, fds, child, childTerm, waits,
                   dropWaited, firstRet, lastRet, sig, lastOp, pv, pq, extVars>>

drop_pop_CloseByIndex ==
    /\ pc = "dropping"
    /\ io # <<>>
    /\ io' = SubSeq(io, 1, Len(io) - 1)
    /\ fds' = IF fds[Len(io)].st = "none" THEN fds ELSE CloseFd(fds, Len(io), "drop")
    /\ UNCHANGED <<pc, config, spawnRes, newRes, handle, child, childTerm, waits,
                   dropWaited, firstRet, lastRet, sig, lastOp, pv, pq, extVars>>

\* one turn of the loop: self.io.pop() is Some(_), and the popped slot is dropped
drop_pop ==
    /\ pc = "dropping"
    /\ io # <<>>
    /\ io' = SubSeq(io, 1, Len(io) - 1)
    /\ fds' = DropSlot(fds, io[Len(io)], "drop")
    /\ UNCHANGED <<pc, config, spawnRes, newRes, handle, child, childTerm, waits,
                   dropWaited, firstRet, lastRet, sig, lastOp, pv, pq, extVars>>

drop_wait_Early ==
    /\ pc = "dropping"
    /\ dropWaited' = TRUE
    /\ Process_wait("drop")
    /\ UNCHANGED <<config, spawnRes, newRes, handle, io, fds, child, childTerm, sig,
                   lastOp, pv, pq, extVars>>

drop_wait_Skip ==
    /\ pc = "dropping"
    /\ io = <<>>
    /\ pc' = "done"
    /\ UNCHANGED <<config, spawnRes, newRes, handle, io, fds, child, childTerm, waits,
                   dropWaited, firstRet, lastRet, sig, lastOp, pv, pq, extVars>>

\* self.io.pop() is None: the loop breaks, then self.wait()
drop_wait ==
    /\ pc = "dropping"
    /\ io = <<>>
    /\ dropWaited' = TRUE
    /\ Process_wait("drop")
    /\ UNCHANGED <<config, spawnRes, newRes, handle, io, fds, child, childTerm, sig,
                   lastOp, pv, pq, extVars>>

(* ------------------------------ the child ----------------------------- *)

\* the child's descriptor 0 is at end of input
StdinAtEof ==
    IF Len(config.io) = 0 THEN FALSE
    ELSE IF config.io[1].kind = "Ignored" THEN TRUE
    ELSE IF config.io[1].kind = "CreatePipe"
         THEN (~config.io[1].readable) \/ fds[1].st = "closed"
    ELSE FALSE

\* the child's descriptor 0 is not wired by the parent's handle
StdinForeign ==
    IF Len(config.io) = 0 THEN TRUE ELSE config.io[1].kind = "InheritFd"

Terminate(st) ==
    /\ child' = "zombie"
    /\ childTerm' = Some(st)
    /\ UNCHANGED <<pc, config, spawnRes, newRes, handle, io, fds, waits, dropWaited,
                   firstRet, lastRet, sig, lastOp, pv, pq, extVars>>

\* sh -c "exit c", sh -c "kill -1 $$"
child_exit ==
    /\ child = "running"
    /\ config.program.kind \in {"exit", "killself"}
    /\ Terminate(IF config.program.kind = "exit"
                 THEN ExitStatus(config.program.code)
                 ELSE ExitSignal(SelfSignal))

\* sh -c "read line; echo $line": the read ends at end of input
child_read_eof ==
    /\ child = "running"
    /\ config.program.kind = "readline"
    /\ StdinAtEof
    /\ Terminate(ExitStatus(0))

\* the same child reading a descriptor the handle does not own
child_read_foreign ==
    /\ child = "running"
    /\ config.program.kind = "readline"
    /\ StdinForeign
    /\ Terminate(ExitStatus(0))

(* ------------------------------- Spec --------------------------------- *)

Next ==
    \/ Process_new
    \/ signal
    \/ wait
    \/ RtioProcess_wait_wake
    \/ close_slot
    \/ drop_begin
    \/ drop_pop
    \/ drop_wait
    \/ child_exit
    \/ child_read_eof
    \/ child_read_foreign

Spec == Init /\ [][Next]_vars

\* the OS runs a child that can make a step, and wakes a waiter whose child is dead
FairSpec ==
    /\ Spec
    /\ WF_vars(child_exit)
    /\ WF_vars(child_read_eof)
    /\ WF_vars(RtioProcess_wait_wake)

\* and the thread that runs the destructor keeps running it
DropFairSpec ==
    /\ FairSpec
    /\ WF_vars(drop_pop)
    /\ WF_vars(drop_wait)

(* -------------------- inspecting a ProcessExit value ------------------ *)

ExitValues ==
    LET payloads == (-MaxVal..MaxVal) \cup Signals IN
    {ExitStatus(n) : n \in payloads} \cup {ExitSignal(n) : n \in payloads}

\* the empty program "" names no binary
EmptyProgram == [kind |-> "missing", path |-> ""]

DefaultConfig_Detached ==
    [program |-> EmptyProgram, args |-> <<>>, env |-> None, cwd |-> None,
     io |-> <<>>, uid |-> None, gid |-> None, detach |-> TRUE]

\* ProcessConfig::new()
DefaultConfig ==
    [program |-> EmptyProgram, args |-> <<>>, env |-> None, cwd |-> None,
     io |-> <<>>, uid |-> None, gid |-> None, detach |-> FALSE]

ExitInit ==
    /\ config = DefaultConfig
    /\ InitProc
    /\ InitExt
    /\ pv \in {Some(v) : v \in ExitValues}
    /\ pq = None

call_matches_exit_status ==
    /\ IsSome(pv)
    /\ \E wanted \in -MaxVal..MaxVal :
         pq' = Some([op |-> "matches_exit_status", wanted |-> wanted,
                     res |-> matches_exit_status(Unwrap(pv), wanted)])
    /\ UNCHANGED <<procVars, pv, extVars>>

call_success ==
    /\ IsSome(pv)
    /\ pq' = Some([op |-> "success", wanted |-> 0, res |-> success(Unwrap(pv))])
    /\ UNCHANGED <<procVars, pv, extVars>>

\* "{}" of an int: an optional minus sign and the decimal digits
DigitChars == <<"0", "1", "2", "3", "4", "5", "6", "7", "8", "9">>

RECURSIVE DecNat(_)
DecNat(n) ==
    IF n < 10 THEN <<DigitChars[n + 1]>>
    ELSE Append(DecNat(n \div 10), DigitChars[(n % 10) + 1])

DecInt(n) == IF n < 0 THEN <<"-">> \o DecNat(-n) ELSE DecNat(n)

ExitCodeText == <<"e", "x", "i", "t", " ", "c", "o", "d", "e", ":", " ">>
SignalText == <<"s", "i", "g", "n", "a", "l", ":", " ">>

fmt_SameLabel(self) == ExitCodeText \o DecInt(self.payload)

\* fmt::Show for ProcessExit: write!(f.buf, "exit code: {}", code) or "signal: {}"
fmt(self) ==
    IF self.variant = "ExitStatus"
    THEN ExitCodeText \o DecInt(self.payload)
    ELSE SignalText \o DecInt(self.payload)

\* pv and another value are both rendered
call_fmt ==
    /\ IsSome(pv)
    /\ \E other \in ExitValues :
         pq' = Some([op |-> "fmt", wanted |-> other,
                     res |-> <<fmt(Unwrap(pv)), fmt(other)>>])
    /\ UNCHANGED <<procVars, pv, extVars>>

ExitNext ==
    \/ call_matches_exit_status
    \/ call_success
    \/ call_fmt

ExitSpec == ExitInit /\ [][ExitNext]_vars

(* ------------------------------ Process::id -------------------------- *)

\* most id() calls the caller makes on one handle
MaxIds == 2

\* RtioProcess::id: the process id the handle was given at spawn
RtioProcess_id == Unwrap(Unwrap(handle).pid)

Process_id_ClearedOnceReaped ==
    IF IsSome(Unwrap(handle).exit_status) THEN 0 ELSE RtioProcess_id

\* self.handle.id()
Process_id == RtioProcess_id

id ==
    /\ pc = "live"
    /\ ids.calls < MaxIds
    /\ ids' = [calls |-> ids.calls + 1,
               first |-> IF IsSome(ids.first) THEN ids.first ELSE Some(Process_id),
               last |-> Some(Process_id)]
    /\ lastOp' = "id"
    /\ UNCHANGED <<pc, config, spawnRes, newRes, handle, io, fds, child, childTerm, waits,
                   dropWaited, firstRet, lastRet, sig, pv, pq, nextPid, pipeVars, cvecVars>>

\* the stdio lists of tests::smoke, tests::stdout_works and tests::stdin_works
TestIos ==
    {<<>>, <<Ignored, CreatePipe(FALSE, TRUE)>>,
     <<CreatePipe(TRUE, FALSE), CreatePipe(FALSE, TRUE)>>}

IdInit ==
    /\ config \in {c \in Configs :
                     c.io \in TestIos /\ c.uid = None /\ c.cwd = None /\ ~c.detach}
    /\ InitProc
    /\ nextPid \in Pids
    /\ ids = NoIds
    /\ InitPipe
    /\ InitCVec
    /\ pv = None
    /\ pq = None

IdNext ==
    \/ Next
    \/ id

IdSpec == IdInit /\ [][IdNext]_vars

(* --------------------------- ProcessConfig::new ----------------------- *)

\* let config = ProcessConfig::new()
call_ProcessConfig_new ==
    /\ pc = "start"
    /\ config' = DefaultConfig
    /\ lastOp' = "config_new"
    /\ UNCHANGED <<pc, spawnRes, newRes, handle, io, fds, child, childTerm, waits,
                   dropWaited, firstRet, lastRet, sig, pv, pq, extVars>>

\* ProcessConfig { program: .., io: .., .. ProcessConfig::new() }
struct_update ==
    /\ pc = "start"
    /\ \E p \in Programs, s \in SeqsUpTo(StdioContainers, MaxSlots) :
         config' = [DefaultConfig EXCEPT !.program = p, !.args = ArgsOf(p), !.io = s]
    /\ lastOp' = "config_update"
    /\ UNCHANGED <<pc, spawnRes, newRes, handle, io, fds, child, childTerm, waits,
                   dropWaited, firstRet, lastRet, sig, pv, pq, extVars>>

ConfigNext ==
    \/ call_ProcessConfig_new
    \/ struct_update
    \/ Process_new

ConfigSpec == Init /\ [][ConfigNext]_vars

(* ------------------------- bytes through the pipes -------------------- *)

\* longest text the parent writes to the child's stdin
MaxMsg == 2

\* the text of tests::stdin_works and tests::stdout_works, without the newline
Word == <<"f", "o", "o", "b", "a", "r">>
Newline == "\n"

\* sh -c "echo foobar" and sh -c "read line; echo $line", with their pipes
PipePrograms ==
    {[kind |-> "echo", path |-> "/bin/sh", text |-> Word],
     [kind |-> "readecho", path |-> "/bin/sh"]}

PipeIos ==
    {<<Ignored, CreatePipe(FALSE, TRUE)>>,
     <<CreatePipe(TRUE, FALSE), CreatePipe(FALSE, TRUE)>>,
     <<CreatePipe(FALSE, TRUE), CreatePipe(TRUE, FALSE)>>,
     <<CreatePipe(TRUE, TRUE), CreatePipe(TRUE, TRUE)>>}

PipeInit ==
    /\ config \in {[DefaultConfig EXCEPT !.program = p, !.args = ArgsOf(p), !.io = s] :
                     p \in PipePrograms, s \in PipeIos}
    /\ InitProc
    /\ InitExt
    /\ pv = None
    /\ pq = None

\* the child's descriptor fd (from 1) is a pipe made by the spawn
ChildPipe(fd) == fd <= Len(config.io) /\ config.io[fd].kind = "CreatePipe"

\* everything the child's script writes to its stdout
OutText ==
    IF config.program.kind = "echo" THEN Append(config.program.text, Newline)
    ELSE Append(SelectSeq(kid.in, LAMBDA b : b # Newline), Newline)

PipeFrame ==
    UNCHANGED <<pc, config, spawnRes, newRes, handle, io, fds, child, childTerm, waits,
                dropWaited, firstRet, lastRet, sig, pv, pq, idVars, cvecVars>>

\* PipeStream::write on io[i]: the byte enters the pipe when the endpoint is the
\* write end of a pipe whose read end the child holds
parent_write ==
    /\ pc = "live"
    /\ Len(parentWrote) < MaxMsg
    /\ \E i \in DOMAIN io :
         /\ IsSome(io[i])
         /\ LET k == Unwrap(io[i]).obj
                b == Word[Len(parentWrote) + 1]
            IN IF ~config.io[k].readable
               THEN /\ pio' = Some([op |-> "write", slot |-> i, res |-> "Err"])
                    /\ UNCHANGED <<inflight, parentWrote>>
               ELSE IF child # "running"
               THEN /\ pio' = Some([op |-> "write", slot |-> i, res |-> "BrokenPipe"])
                    /\ UNCHANGED <<inflight, parentWrote>>
               ELSE /\ pio' = Some([op |-> "write", slot |-> i, res |-> "Ok"])
                    /\ inflight' = [inflight EXCEPT ![k].down = Append(@, b)]
                    /\ parentWrote' = Append(parentWrote, b)
    /\ lastOp' = "write"
    /\ UNCHANGED <<pc, config, spawnRes, newRes, handle, io, fds, child, childTerm, waits,
                   dropWaited, firstRet, lastRet, sig, pv, pq, idVars, cvecVars, parentRead, kid>>

\* PipeStream::read on io[i]: the next byte of the pipe, end of file once the
\* pipe is empty and the child has gone, and blocked in between
parent_read ==
    /\ pc = "live"
    /\ \E i \in DOMAIN io :
         /\ IsSome(io[i])
         /\ ~parentRead[i].eof
         /\ LET k == Unwrap(io[i]).obj IN
            IF ~config.io[k].writable
            THEN /\ pio' = Some([op |-> "read", slot |-> i, res |-> "Err"])
                 /\ UNCHANGED <<inflight, parentRead>>
            ELSE IF inflight[k].up # <<>>
            THEN /\ pio' = Some([op |-> "read", slot |-> i, res |-> "Ok"])
                 /\ parentRead' = [parentRead EXCEPT ![i].data = Append(@, Head(inflight[k].up))]
                 /\ inflight' = [inflight EXCEPT ![k].up = Tail(@)]
            ELSE /\ child # "running"
                 /\ pio' = Some([op |-> "read", slot |-> i, res |-> "Eof"])
                 /\ parentRead' = [parentRead EXCEPT ![i].eof = TRUE]
                 /\ UNCHANGED inflight
    /\ lastOp' = "read"
    /\ UNCHANGED <<pc, config, spawnRes, newRes, handle, io, fds, child, childTerm, waits,
                   dropWaited, firstRet, lastRet, sig, pv, pq, idVars, cvecVars, parentWrote, kid>>

\* read line: the child takes a byte from fd 0, or meets the end of its input
kid_read ==
    /\ child = "running"
    /\ config.program.kind = "readecho"
    /\ kid.phase = "read"
    /\ IF ChildPipe(1) /\ config.io[1].readable
       THEN IF inflight[1].down # <<>>
            THEN /\ kid' = [kid EXCEPT !.in = Append(@, Head(inflight[1].down)),
                                       !.phase = IF Head(inflight[1].down) = Newline
                                                 THEN "write" ELSE "read"]
                 /\ inflight' = [inflight EXCEPT ![1].down = Tail(@)]
            ELSE /\ fds[1].st = "closed"
                 /\ kid' = [kid EXCEPT !.phase = "write"]
                 /\ UNCHANGED inflight
       ELSE /\ kid' = [kid EXCEPT !.phase = "write"]
            /\ UNCHANGED inflight
    /\ PipeFrame
    /\ UNCHANGED <<lastOp, parentWrote, parentRead, pio>>

KidWrites == config.program.kind = "echo" \/ (config.program.kind = "readecho" /\ kid.phase = "write")

\* echo: the child writes the next byte of its text to fd 1
kid_write ==
    /\ child = "running"
    /\ KidWrites
    /\ kid.pos < Len(OutText)
    /\ ~(ChildPipe(2) /\ config.io[2].writable /\ fds[2].st = "closed")
    /\ IF ChildPipe(2) /\ config.io[2].writable
       THEN /\ inflight' = [inflight EXCEPT ![2].up = Append(@, OutText[kid.pos + 1])]
            /\ kid' = [kid EXCEPT !.pos = @ + 1, !.out[2] = Append(@, OutText[kid.pos + 1])]
       ELSE /\ kid' = [kid EXCEPT !.pos = @ + 1]
            /\ UNCHANGED inflight
    /\ PipeFrame
    /\ UNCHANGED <<lastOp, parentWrote, parentRead, pio>>

\* the script is over, or its write met a pipe nobody reads (SIGPIPE)
kid_exit ==
    /\ child = "running"
    /\ KidWrites
    /\ IF ChildPipe(2) /\ config.io[2].writable /\ fds[2].st = "closed"
          /\ kid.pos < Len(OutText)
       THEN Terminate(ExitSignal(13))
       ELSE kid.pos = Len(OutText) /\ Terminate(ExitStatus(0))

PipeNext ==
    \/ Process_new
    \/ parent_write
    \/ parent_read
    \/ close_slot
    \/ wait
    \/ RtioProcess_wait_wake
    \/ drop_begin
    \/ drop_pop
    \/ drop_wait
    \/ kid_read
    \/ kid_write
    \/ kid_exit

PipeSpec == PipeInit /\ [][PipeNext]_vars

(* ------------------------------ CVec ---------------------------------- *)

\* longest buffer handed to a CVec
MaxLen == 2

\* ptr::mut_null()
NullPtr == 0

\* the pointers handed to the constructors: null, tests::test_unwrap's 1, a malloc result
CBases == {NullPtr, 1, 2}

\* the element values tests::test_basic stores
CElems == {8, 9}

\* the offsets the calls are made with: inside, at len and past it
COffsets == 0..(MaxLen + 1)

DtorRes_new(dtor) == [dtor |-> dtor]

\* Drop for DtorRes: take the proc out and call it if there was one
DtorRes_drop(rsrc) ==
    [rsrc |-> [rsrc EXCEPT !.dtor = None], ran |-> IF IsSome(rsrc.dtor) THEN 1 ELSE 0]

\* dropping a CVec drops its rsrc field
CVec_drop(c) == DtorRes_drop(c.rsrc).ran

CVecFrame == UNCHANGED <<procVars, pv, pq, idVars, pipeVars>>

\* CVec::new / CVec::new_with_dtor on a fresh buffer: assert the base, then build
CVec_build(base, len, dtor) ==
    IF base # NullPtr
    THEN [ok |-> TRUE, cv |-> Some([base |-> base, len |-> len, rsrc |-> DtorRes_new(dtor)])]
    ELSE [ok |-> FALSE, cv |-> None]

construct(base, len, dtor, op) ==
    /\ LET r == CVec_build(base, len, dtor) IN
         /\ cv' = r.cv
         /\ cvpc' = IF r.ok THEN "live" ELSE "failed"
         /\ built' = IF r.ok THEN Some([base |-> base, len |-> len, dtor |-> IsSome(dtor)])
                    ELSE None
         /\ cres' = Some([op |-> op, ofs |-> 0, ok |-> r.ok, val |-> base])
    /\ \E m \in [1..(MaxLen + 1) -> CElems] : mem' = m
    /\ written' = [i \in 1..(MaxLen + 1) |-> None]
    /\ UNCHANGED dtorRuns
    /\ CVecFrame

CVec_new ==
    /\ cvpc = "none"
    /\ \E base \in CBases, len \in 0..MaxLen : construct(base, len, None, "new")

CVec_new_with_dtor ==
    /\ cvpc = "none"
    /\ \E base \in CBases, len \in 0..MaxLen :
         construct(base, len, Some("free"), "new_with_dtor")

\* a failed assert unwinds the task, which drops the CVec it owns
unwind(op, ofs) ==
    /\ cvpc' = "failed"
    /\ cv' = None
    /\ dtorRuns' = dtorRuns + CVec_drop(Unwrap(cv))
    /\ cres' = Some([op |-> op, ofs |-> ofs, ok |-> FALSE, val |-> 0])
    /\ UNCHANGED <<mem, written, built>>

CVec_get_OffByOne(c, ofs) ==
    IF ofs <= c.len THEN [ok |-> TRUE, cell |-> ofs + 1] ELSE [ok |-> FALSE, cell |-> 0]

\* assert!(ofs < self.len); &*self.base.offset(ofs as int)
CVec_get(c, ofs) ==
    IF ofs < c.len THEN [ok |-> TRUE, cell |-> ofs + 1] ELSE [ok |-> FALSE, cell |-> 0]

\* assert!(ofs < self.len); &mut *self.base.offset(ofs as int)
CVec_get_mut(c, ofs) ==
    IF ofs < c.len THEN [ok |-> TRUE, cell |-> ofs + 1] ELSE [ok |-> FALSE, cell |-> 0]

\* *cv.get(ofs)
get ==
    /\ cvpc = "live"
    /\ \E ofs \in COffsets :
         LET r == CVec_get(Unwrap(cv), ofs) IN
           IF r.ok
           THEN /\ cres' = Some([op |-> "get", ofs |-> ofs, ok |-> TRUE, val |-> mem[r.cell]])
                /\ UNCHANGED <<cvpc, cv, mem, written, built, dtorRuns>>
           ELSE unwind("get", ofs)
    /\ CVecFrame

\* *cv.get_mut(ofs) = v
set ==
    /\ cvpc = "live"
    /\ \E ofs \in COffsets, v \in CElems :
         LET r == CVec_get_mut(Unwrap(cv), ofs) IN
           IF r.ok
           THEN /\ mem' = [mem EXCEPT ![r.cell] = v]
                /\ written' = [written EXCEPT ![ofs + 1] = Some(v)]
                /\ cres' = Some([op |-> "set", ofs |-> ofs, ok |-> TRUE, val |-> v])
                /\ UNCHANGED <<cvpc, cv, built, dtorRuns>>
           ELSE unwind("set", ofs)
    /\ CVecFrame

\* Container::len
CVec_len(c) == c.len

len ==
    /\ cvpc = "live"
    /\ cres' = Some([op |-> "len", ofs |-> 0, ok |-> TRUE, val |-> CVec_len(Unwrap(cv))])
    /\ UNCHANGED <<cvpc, cv, mem, written, built, dtorRuns>>
    /\ CVecFrame

CVec_unwrap_KeepDtor(c) == [self |-> c, ret |-> c.base]

\* self.rsrc.dtor = None; self.base
CVec_unwrap(c) == [self |-> [c EXCEPT !.rsrc.dtor = None], ret |-> c.base]

\* unwrap takes the CVec by value, so what is left of it is dropped on return
unwrap ==
    /\ cvpc = "live"
    /\ LET r == CVec_unwrap(Unwrap(cv)) IN
         /\ cres' = Some([op |-> "unwrap", ofs |-> 0, ok |-> TRUE, val |-> r.ret])
         /\ dtorRuns' = dtorRuns + CVec_drop(r.self)
    /\ cvpc' = "unwrapped"
    /\ cv' = None
    /\ UNCHANGED <<mem, written, built>>
    /\ CVecFrame

\* the CVec goes out of scope
cvec_drop ==
    /\ cvpc = "live"
    /\ dtorRuns' = dtorRuns + CVec_drop(Unwrap(cv))
    /\ cvpc' = "dropped"
    /\ cv' = None
    /\ cres' = Some([op |-> "drop", ofs |-> 0, ok |-> TRUE, val |-> 0])
    /\ UNCHANGED <<mem, written, built>>
    /\ CVecFrame

CVecInit ==
    /\ config = DefaultConfig
    /\ InitProc
    /\ InitExt
    /\ pv = None
    /\ pq = None

CVecNext ==
    \/ CVec_new
    \/ CVec_new_with_dtor
    \/ get
    \/ set
    \/ len
    \/ unwrap
    \/ cvec_drop

CVecSpec == CVecInit /\ [][CVecNext]_vars

(* ------------------- a wait that fails (spec section 7) --------------- *)

\* the terminated child is reaped by something other than the handle (a
\* competing wait in the same process, or SIGCHLD being ignored)
foreign_reap ==
    /\ child = "zombie"
    /\ child' = "reaped"
    /\ UNCHANGED <<pc, config, spawnRes, newRes, handle, io, fds, childTerm, waits,
                   dropWaited, firstRet, lastRet, sig, lastOp, pv, pq, extVars>>

\* where a failure raised inside self.wait() ends: wait() returns a ProcessExit
\* and has no error value, and drop() calls it with nothing around it, so the
\* failure leaves the caller of wait(), or the destructor, as a task failure
FailureLeaves(at) == IF at = "dropwaiting" THEN "drop_failed" ELSE "task_failed"

\* RtioProcess::wait when the OS-level wait fails: there is no status to return
RtioProcess_wait_fail ==
    /\ pc \in {"waiting", "dropwaiting"}
    /\ child = "reaped"
    /\ ~IsSome(Unwrap(handle).exit_status)
    /\ waits' = [waits EXCEPT !.os = @ + 1]
    /\ pc' = FailureLeaves(pc)
    /\ UNCHANGED <<config, spawnRes, newRes, handle, io, fds, child, childTerm,
                   dropWaited, firstRet, lastRet, sig, lastOp, pv, pq, extVars>>

FaultNext ==
    \/ Next
    \/ foreign_reap
    \/ RtioProcess_wait_fail

FaultSpec == Init /\ [][FaultNext]_vars

(* ------------------------------ claims -------------------------------- *)

\* C1: wait() is idempotent. Once a wait() has returned a status, every later
\* call of wait() returns in the same step (it does not block), returns exactly
\* that status, and no further OS-level wait is made.
C1_WaitIdempotent ==
    [][IsSome(firstRet) =>
         /\ lastRet' = firstRet
         /\ waits'.os = waits.os
         /\ waits'.calls = waits.calls + 1 =>
              /\ waits'.rets = waits.rets + 1
              /\ pc' \notin {"waiting", "dropwaiting"}]_vars

C1_Witness ==
    /\ lastOp = "wait"
    /\ waits.calls = 2
    /\ waits.rets = 2
    /\ waits.os = 1
    /\ IsSome(firstRet)
    /\ lastRet = firstRet

\* C2: the destructor closes every io slot still present before it waits: once
\* the destructor has called wait no parent-side pipe descriptor is open, and
\* when the destructor is done the child is reaped and no descriptor is open.
C2_CloseThenWait ==
    /\ dropWaited => OpenFds = {}
    /\ pc = "dropwaiting" => io = <<>>
    /\ pc = "done" => child = "reaped" /\ OpenFds = {} /\ io = <<>>

C2_Witness ==
    /\ pc = "done"
    /\ waits.calls = 1
    /\ child = "reaped"
    /\ \E i \in DOMAIN fds : fds[i].st = "closed" /\ fds[i].by = "drop"

\* C3 as stated: the destructor calls wait() only if wait() was not called
\* before, and the OS-level wait is made exactly once over the handle's life.
C3_Original ==
    /\ dropWaited => waits.calls = 1
    /\ waits.os <= 1
    /\ pc = "done" => waits.os = 1

\* C3 as amended: the destructor calls wait() in every case, also after an
\* explicit wait(); the OS-level wait is still made exactly once over the
\* handle's life, never twice, because a later wait() returns the cached status.
C3_WaitOnce ==
    /\ waits.os <= 1
    /\ pc = "done" => dropWaited /\ waits.os = 1
    /\ IsSome(firstRet) => waits.os = 1

C3_Witness ==
    /\ pc = "done"
    /\ dropWaited
    /\ waits.calls = MaxWaits + 1
    /\ waits.os = 1

\* C4: a successful spawn returns a handle whose io has the length of config.io
\* and whose slot i holds an open endpoint exactly when config.io[i] is
\* CreatePipe, in the same order.
C4_SlotsMatchStdio ==
    [][(pc = "start" /\ newRes' = "Ok") =>
         /\ Len(io') = Len(config.io)
         /\ \A i \in 1..Len(config.io) :
              /\ IsSome(io'[i]) <=> config.io[i].kind = "CreatePipe"
              /\ IsSome(io'[i]) =>
                   Unwrap(io'[i]).obj = i /\ fds'[i].st = "open"]_vars

C4_Witness ==
    /\ pc = "live"
    /\ lastOp = "new"
    /\ config.io = <<Ignored, CreatePipe(FALSE, TRUE)>>
    /\ Len(io) = 2
    /\ io[1] = None
    /\ IsSome(io[2])

\* C5: a spawn that fails returns an error from the call itself, yields no
\* handle, and leaves no parent-side pipe descriptor open.
C5_FailedSpawn ==
    (pc # "start" /\ (SpawnFails(config) \/ spawnRes = "Err")) =>
        /\ pc = "failed"
        /\ newRes = "Err"
        /\ handle = None
        /\ io = <<>>
        /\ child = "none"
        /\ OpenFds = {}

C5_Witness ==
    /\ pc = "failed"
    /\ newRes = "Err"
    /\ config.program.kind = "missing"
    /\ \E i \in DOMAIN fds : fds[i].st = "closed"

\* C6: wait() returns only once the child has terminated, and the status it
\* returns is how the child terminated: ExitStatus(c) for an exit with code c,
\* ExitSignal(s) for a termination by signal s (a child the parent never
\* signalled terminates as its program says).
C6_WaitStatus ==
    [][waits'.rets = waits.rets + 1 =>
         /\ child \in {"zombie", "reaped"}
         /\ lastRet' = childTerm
         /\ (config.program.kind = "exit" /\ sig.calls = 0) =>
                lastRet' = Some(ExitStatus(config.program.code))
         /\ (config.program.kind = "killself" /\ sig.calls = 0) =>
                lastRet' = Some(ExitSignal(SelfSignal))
         /\ lastRet'[1].variant = "ExitSignal" =>
                config.program.kind = "killself" \/ sig.calls > 0]_vars

C6_Witness ==
    /\ lastOp = "wait"
    /\ waits.rets = 1
    /\ config.program.kind = "killself"
    /\ lastRet = Some(ExitSignal(SelfSignal))

\* C7: matches_exit_status(n) is true exactly for the normal exit with code n,
\* and false for every termination by signal, whatever its number.
C7_MatchesExitStatus ==
    (IsSome(pq) /\ pq[1].op = "matches_exit_status") =>
        (pq[1].res <=> (pv[1].variant = "ExitStatus" /\ pv[1].payload = pq[1].wanted))

C7_Witness ==
    /\ pv = Some(ExitSignal(0))
    /\ pq = Some([op |-> "matches_exit_status", wanted |-> 0, res |-> FALSE])

\* C8: success() is true exactly for the normal exit with code 0, and false for
\* every other exit code and every termination by signal.
C8_Success ==
    (IsSome(pq) /\ pq[1].op = "success") =>
        (pq[1].res <=> (pv[1].variant = "ExitStatus" /\ pv[1].payload = 0))

C8_Witness ==
    /\ pv = Some(ExitSignal(0))
    /\ pq = Some([op |-> "success", wanted |-> 0, res |-> FALSE])

\* the child reads the write end the parent got for CreatePipe(true, false) at slot 0
StdinPiped == IF Len(config.io) = 0 THEN FALSE ELSE config.io[1] = CreatePipe(TRUE, FALSE)

\* the caller has set io[0] to None
StdinSlotAbsent == IF Len(io) = 0 THEN FALSE ELSE io[1] = None

\* C9: once the caller has set the slot of a CreatePipe(true, false) stdin to
\* None, a child that reads its input until the end terminates, and a wait()
\* that is blocked on it returns.
C9_CloseStdinUnblocks ==
    /\ (config.program.kind = "readline" /\ StdinPiped /\ StdinSlotAbsent
            /\ child = "running")
         ~> (child \in {"zombie", "reaped"})
    /\ (config.program.kind = "readline" /\ StdinPiped /\ StdinSlotAbsent
            /\ pc = "waiting")
         ~> (pc = "live" /\ IsSome(lastRet))

C9_Witness ==
    /\ config.program.kind = "readline"
    /\ StdinPiped
    /\ StdinSlotAbsent
    /\ fds[1].by = "caller"
    /\ sig.calls = 0
    /\ lastOp = "wait"
    /\ lastRet = Some(ExitStatus(0))

\* C10: signal() on a child that is gone (exited and reaped) returns an error
\* and changes nothing of the handle: the io slots, the descriptors and the
\* cached exit status stay, and a later wait() returns the child's status.
C10_SignalAfterReap ==
    [][/\ (sig'.calls = sig.calls + 1 /\ child = "reaped") =>
            /\ sig'.res = "Err"
            /\ io' = io
            /\ fds' = fds
            /\ handle' = handle
            /\ pc' = pc
       /\ (sig.res = "Err" /\ waits'.calls = waits.calls + 1) =>
            /\ waits'.rets = waits.rets + 1
            /\ lastRet' = childTerm]_vars

C10_Witness ==
    /\ sig.res = "Err"
    /\ lastOp = "wait"
    /\ waits.rets = 2
    /\ child = "reaped"
    /\ lastRet = childTerm

\* C11: the destructor never fails. A wait that fails during the implicit
\* teardown is swallowed and drop() completes, instead of a failure leaving the
\* destructor.
C11_DropNeverFails == pc # "drop_failed"

\* the first Len(prefix) characters of text are prefix
StartsWith(text, prefix) ==
    Len(text) > Len(prefix) /\ SubSeq(text, 1, Len(prefix)) = prefix

\* C13: a normal exit renders as "exit code: N" and a termination by signal as
\* "signal: N", and two exit values render to the same text exactly when they
\* are equal (same variant, same payload).
C13_RenderingUnambiguous ==
    (IsSome(pq) /\ pq[1].op = "fmt") =>
        /\ (pq[1].res[1] = pq[1].res[2]) <=> (pv[1] = pq[1].wanted)
        /\ pv[1].variant = "ExitStatus" =>
             pq[1].res[1] = ExitCodeText \o DecInt(pv[1].payload)
        /\ pv[1].variant = "ExitSignal" =>
             /\ StartsWith(pq[1].res[1], SignalText)
             /\ ~StartsWith(pq[1].res[1], ExitCodeText)

C13_Witness ==
    /\ IsSome(pq)
    /\ pq[1].op = "fmt"
    /\ pv = Some(ExitStatus(1))
    /\ pq[1].wanted = ExitSignal(1)
    /\ pq[1].res[1] # pq[1].res[2]

\* the child terminates by itself or once the handle's endpoints are closed
ChildEndsOnClose ==
    \/ config.program.kind \in {"exit", "killself"}
    \/ config.program.kind = "readline" /\ ~StdinForeign

\* C17: when the child is one that terminates once the parent-side endpoints of
\* its handle are closed (a child blocked reading its stdin), a drop of the
\* handle that has begun completes: the destructor's wait does not hang.
C17_DropCompletes == (pc = "dropping" /\ ChildEndsOnClose) ~> (pc = "done")

C17_Witness ==
    /\ pc = "done"
    /\ config.program.kind = "readline"
    /\ StdinPiped
    /\ fds[1].by = "drop"
    /\ waits.calls = 1
    /\ sig.calls = 0

\* C19: every parent-side endpoint a successful spawn made is closed exactly
\* once over the handle's life, by the caller setting its slot to None or by the
\* destructor's pop loop, never by both; an open endpoint is owned by its slot
\* alone; and io is empty when the destructor's wait starts.
C19_ClosedExactlyOnce ==
    /\ \A i \in DOMAIN fds :
         /\ fds[i].closes <= 1
         /\ fds[i].st = "closed" <=> fds[i].closes = 1
    /\ spawnRes = "Ok" =>
         \A i \in DOMAIN fds :
           /\ fds[i].st # "none" <=> (i <= Len(config.io) /\ config.io[i].kind = "CreatePipe")
           /\ fds[i].st = "open" <=> (i <= Len(io) /\ io[i] = Some(PipeStream_new(i)))
           /\ fds[i].st = "closed" => fds[i].by \in {"caller", "drop"}
    /\ dropWaited => io = <<>> /\ OpenFds = {}

C19_Witness ==
    /\ pc = "done"
    /\ \E i, j \in DOMAIN fds :
         /\ fds[i].closes = 1 /\ fds[i].by = "caller"
         /\ fds[j].closes = 1 /\ fds[j].by = "drop"

\* C14: ProcessConfig::new() returns the default configuration (empty program,
\* no args, no env, no cwd, no io, no uid, no gid, not detached), and building a
\* configuration validates nothing and has no effect: until Process::new is
\* called there is no child, no pipe and no result.
C14_DefaultConfig ==
    [][/\ lastOp' = "config_new" =>
            /\ config'.program.path = ""
            /\ config'.args = <<>>
            /\ config'.env = None
            /\ config'.cwd = None
            /\ config'.io = <<>>
            /\ config'.uid = None
            /\ config'.gid = None
            /\ config'.detach = FALSE
       /\ pc' = "start" =>
            /\ child' = "none"
            /\ handle' = None
            /\ spawnRes' = "none"
            /\ newRes' = "none"
            /\ \A i \in DOMAIN fds' : fds'[i].st = "none"]_vars

C14_Witness ==
    /\ pc = "start"
    /\ lastOp = "config_new"
    /\ config = DefaultConfig
    /\ child = "none"

\* C18: between spawn and destruction the handle changes only by the closing of
\* single io slots and by wait: id(), signal() and wait() leave io and the
\* descriptors as they are, closing a slot changes that slot alone and neither
\* the length of io nor the cached exit status, the exit status changes only
\* when a wait returns, and id() returns the same identifier every time.
C18_Frame ==
    [][(pc \in {"live", "waiting"} /\ pc' \in {"live", "waiting"}) =>
         /\ Len(io') = Len(io)
         /\ Cardinality({i \in DOMAIN io : io'[i] # io[i]}) <= 1
         /\ \A i \in DOMAIN io :
              io'[i] # io[i] => io'[i] = None /\ lastOp' = "close" /\ handle' = handle
         /\ (ids' # ids \/ sig' # sig \/ waits' # waits) => io' = io /\ fds' = fds
         /\ handle'[1].pid = handle[1].pid
         /\ handle' # handle => waits'.rets = waits.rets + 1
         /\ ids' # ids =>
              /\ ids'.last = handle[1].pid
              /\ IsSome(ids.first) => ids'.last = ids.first]_vars

C18_Witness ==
    /\ pc = "live"
    /\ lastOp = "id"
    /\ ids.calls = 2
    /\ ids.first = ids.last
    /\ waits.rets >= 1
    /\ sig.calls >= 1
    /\ Len(io) = 2
    /\ io[1] = None
    /\ IsSome(io[2])

IsPrefix(a, b) == Len(a) <= Len(b) /\ a = SubSeq(b, 1, Len(a))

\* C12: for every CreatePipe(r, w) slot the parent's endpoint has the opposite
\* direction: when the child's side is readable a write by the parent on the
\* slot is not refused, when the child's side is writable a read by the parent
\* is not refused; and what the parent reads from the slot of a child-writable
\* pipe is at every moment a prefix of what the child wrote on that descriptor,
\* and exactly that once the parent has read end of file.
C12_PipeDirections ==
    /\ \A i \in DOMAIN io :
         IsSome(io[i]) => config.io[i].kind = "CreatePipe"
    /\ IsSome(pio) =>
         LET q == Unwrap(pio) IN
           /\ (q.op = "write" /\ config.io[q.slot].readable) => q.res # "Err"
           /\ (q.op = "read" /\ config.io[q.slot].writable) => q.res # "Err"
    /\ \A i \in Slots :
         /\ IsPrefix(parentRead[i].data, kid.out[i])
         /\ parentRead[i].eof => parentRead[i].data = kid.out[i]
         /\ (parentRead[i].eof /\ config.program.kind = "echo" /\ i = 2) =>
               parentRead[i].data = Append(config.program.text, Newline)

\* tests::stdin_works: the parent wrote text into slot 0, closed it, and read the
\* same text and a newline from slot 1 up to end of file
C12_Witness ==
    /\ config.program.kind = "readecho"
    /\ Len(parentWrote) = MaxMsg
    /\ kid.in = parentWrote
    /\ parentRead[2].eof
    /\ parentRead[2].data = Append(parentWrote, Newline)
    /\ IsSome(pio) /\ Unwrap(pio).res = "Eof"

\* C15: the release action of a CVec built with one has run exactly once when
\* the CVec has been dropped, by going out of scope or by a failing access, has
\* not run while the CVec is alive, and never runs once unwrap() has given the
\* buffer away; unwrap() returns the base pointer the CVec was built with.
C15_ReleaseOnce ==
    /\ dtorRuns <= 1
    /\ cvpc \in {"none", "live", "unwrapped"} => dtorRuns = 0
    /\ (cvpc \in {"dropped", "failed"} /\ IsSome(built)) =>
          dtorRuns = (IF Unwrap(built).dtor THEN 1 ELSE 0)
    /\ (cvpc = "failed" /\ ~IsSome(built)) => dtorRuns = 0
    /\ cvpc = "unwrapped" =>
          /\ Unwrap(cres).op = "unwrap"
          /\ Unwrap(cres).val = Unwrap(built).base

\* tests::test_unwrap: a CVec with a release action was unwrapped
C15_Witness ==
    /\ cvpc = "unwrapped"
    /\ Unwrap(built).dtor
    /\ Unwrap(built).base = 1
    /\ Unwrap(built).len = 0

\* a CVec with a release action was dropped, and the action ran
C15_WitnessDrop ==
    /\ cvpc = "dropped"
    /\ Unwrap(built).dtor
    /\ dtorRuns = 1

\* C16: get(ofs) and get_mut(ofs) fail exactly when ofs >= len, ofs = len
\* included; when ofs < len they reach the element at ofs, so get(i) returns the
\* value last stored through get_mut(i); and no access changes len().
C16_BoundsChecked ==
    [][/\ (cvpc = "live" /\ cres' # cres /\ Unwrap(cres').op \in {"get", "set"}) =>
            /\ Unwrap(cres').ok <=> Unwrap(cres').ofs < Unwrap(cv).len
            /\ ~Unwrap(cres').ok => cvpc' = "failed"
            /\ Unwrap(cres').ok =>
                  /\ cvpc' = "live"
                  /\ cv' = cv
                  /\ \A i \in 1..Len(mem) : i # Unwrap(cres').ofs + 1 => mem'[i] = mem[i]
                  /\ Unwrap(cres').op = "set" => mem'[Unwrap(cres').ofs + 1] = Unwrap(cres').val
                  /\ (Unwrap(cres').op = "get" /\ IsSome(written[Unwrap(cres').ofs + 1])) =>
                        Unwrap(cres').val = Unwrap(written[Unwrap(cres').ofs + 1])
       /\ (cvpc = "live" /\ cvpc' = "live") => Unwrap(cv').len = Unwrap(cv).len
       /\ (cvpc = "live" /\ cres' # cres /\ Unwrap(cres').op = "len") =>
            Unwrap(cres').val = Unwrap(built).len]_vars

\* a get at ofs = len has failed
C16_Witness ==
    /\ cvpc = "failed"
    /\ IsSome(built)
    /\ Unwrap(cres).op = "get"
    /\ Unwrap(cres).ofs = Unwrap(built).len

\* tests::test_basic: a value stored through get_mut(1) was read back by get(1)
C16_WitnessReadBack ==
    /\ cvpc = "live"
    /\ Unwrap(cres).op = "get"
    /\ Unwrap(cres).ofs = 1
    /\ written[2] = Some(9)
    /\ Unwrap(cres).val = 9
====
